---- MODULE Spec2Model ----
(***************************************************************************)
(* A model of DependencyParser (src/src/parser.ts, the class that starts   *)
(* at line 267): construction, scanDirectory, extractImports,              *)
(* resolveImportPath, the two passes of parse() and                        *)
(* detectCircularDependencies.                                             *)
(*                                                                         *)
(* Strings are sequences of tokens.  A token is one punctuation character  *)
(* ("/", ".", "@", "*") or an indivisible run of letters, so that          *)
(* startsWith, includes, string concatenation and equality are computed on *)
(* the sequence exactly as the code computes them on characters.           *)
(***************************************************************************)
EXTENDS Integers, Sequences, FiniteSets, TLC

----------------------------------------------------------------------------
(* String primitives (String.prototype.startsWith / endsWith / includes).  *)

StartsWith(s, p) == Len(s) >= Len(p) /\ SubSeq(s, 1, Len(p)) = p

EndsWith(s, p) == Len(s) >= Len(p) /\ SubSeq(s, Len(s) - Len(p) + 1, Len(s)) = p

Includes(s, p) == \E i \in 1..(Len(s) - Len(p) + 1) : SubSeq(s, i, i + Len(p) - 1) = p

IndexOf(seq, x) ==
  IF \E i \in 1..Len(seq) : seq[i] = x
  THEN CHOOSE i \in 1..Len(seq) : seq[i] = x /\ \A j \in 1..(i - 1) : seq[j] # x
  ELSE 0

(* A variant that keeps every occurrence.                                  *)
DedupNone(seq) == seq

(* [...new Set(seq)]: the first occurrence of each element, in order.      *)
Dedup(seq) ==
  LET keep == {i \in 1..Len(seq) : \A j \in 1..(i - 1) : seq[j] # seq[i]}
      F[i \in 0..Len(seq)] ==
        IF i = 0 THEN <<>>
        ELSE IF i \in keep THEN Append(F[i - 1], seq[i]) ELSE F[i - 1]
  IN F[Len(seq)]

SeqToSet(seq) == {seq[i] : i \in 1..Len(seq)}

Reverse(seq) == [i \in 1..Len(seq) |-> seq[Len(seq) + 1 - i]]

----------------------------------------------------------------------------
(* node:path on POSIX, for absolute bases.                                 *)

SLASH == <<"/">>
DOT == <<".">>
DOTDOT == <<".", ".">>

(* The segments of a string between its "/" tokens.                        *)
RECURSIVE Split(_)
Split(s) ==
  IF \A i \in 1..Len(s) : s[i] # "/"
  THEN <<s>>
  ELSE LET k == CHOOSE i \in 1..Len(s) : s[i] = "/" /\ \A j \in 1..(i - 1) : s[j] # "/"
       IN <<SubSeq(s, 1, k - 1)>> \o Split(SubSeq(s, k + 1, Len(s)))

(* Normalisation of the segments of an absolute path: empty and "."        *)
(* segments vanish, ".." removes the segment before it (none at the root). *)
RECURSIVE NormSegs(_, _)
NormSegs(segs, acc) ==
  IF segs = <<>> THEN acc
  ELSE LET h == Head(segs)
       IN NormSegs(Tail(segs),
                   IF h = <<>> \/ h = DOT THEN acc
                   ELSE IF h = DOTDOT
                        THEN (IF acc = <<>> THEN acc ELSE SubSeq(acc, 1, Len(acc) - 1))
                        ELSE Append(acc, h))

RECURSIVE JoinSegs(_)
JoinSegs(segs) ==
  IF segs = <<>> THEN <<>>
  ELSE IF Len(segs) = 1 THEN segs[1]
  ELSE segs[1] \o SLASH \o JoinSegs(Tail(segs))

AbsSegs(p) == NormSegs(Split(p), <<>>)

AbsPath(segs) == SLASH \o JoinSegs(segs)

(* path.join(base, s) and path.resolve(base, s) for an absolute base and   *)
(* an s that is not used as an absolute path: both normalise base/s.       *)
PathJoin(base, s) == AbsPath(AbsSegs(base \o SLASH \o s))

PathResolve(base, s) ==
  IF StartsWith(s, SLASH) THEN AbsPath(AbsSegs(s)) ELSE PathJoin(base, s)

PathDirname(p) ==
  LET segs == AbsSegs(p)
  IN IF segs = <<>> THEN SLASH ELSE AbsPath(SubSeq(segs, 1, Len(segs) - 1))

PathBasename(p) ==
  LET segs == AbsSegs(p) IN IF segs = <<>> THEN <<>> ELSE segs[Len(segs)]

(* path.extname(name): from the last "." of the name to its end; none when *)
(* the name has no "." or only a leading one.                              *)
PathExtname(name) ==
  LET dots == {i \in 2..Len(name) : name[i] = "."}
  IN IF dots = {} THEN <<>>
     ELSE LET k == CHOOSE i \in dots : \A j \in dots : j <= i
          IN SubSeq(name, k, Len(name))

(* path.relative(from, to): drop the common leading segments, climb out of *)
(* what is left of from with "..", descend into what is left of to.        *)
PathRelative(from, to) ==
  LET f == AbsSegs(from)
      t == AbsSegs(to)
      m == IF Len(f) < Len(t) THEN Len(f) ELSE Len(t)
      same == {i \in 0..m : \A j \in 1..i : f[j] = t[j]}
      c == CHOOSE i \in same : \A j \in same : j <= i
  IN JoinSegs([i \in 1..(Len(f) - c) |-> DOTDOT] \o SubSeq(t, c + 1, Len(t)))

----------------------------------------------------------------------------
(* The state.  The directory snapshot and the configuration handed to the  *)
(* constructor are fixed for a behaviour; the rest belongs to the parser.  *)

VARIABLES
  disk,             \* the directory snapshot: [files, dirs], sets of absolute paths
  content,          \* per file, the specifier literals of its text, in source order
  listing,          \* the order in which readdirSync lists names
  tsconfig,         \* what <rootDir>/tsconfig.json holds: its state (see
                    \* loadTsConfigPaths), compilerOptions.paths and .baseUrl
  given,            \* the ParserSettings passed to new DependencyParser(...)
  settings,         \* this.settings
  tsConfigBaseUrl,  \* this.tsConfigBaseUrl ("" until a tsconfig.json is loaded)
  pc,               \* where parse() stands
  scanned,          \* const files = this.scanDirectory(rootDir)
  k,                \* index into scanned of the Pass 2 loop
  nodeOrder,        \* key order of the Map this.graph.nodes
  nodes,            \* this.graph.nodes: id -> [imports, importedBy, unresolvedImports]
  edges,            \* this.graph.edges
  visited,          \* detectCircularDependencies: visited
  recursionStack,   \* detectCircularDependencies: recursionStack
  circularPairs,    \* detectCircularDependencies: circularPairs
  stack,            \* the activation records of dfs, innermost last
  expanded,         \* how many times dfs was entered, per node id
  prev,             \* the graph the build before this one returned, if any
  unreadable,       \* the scanned files whose readFileSync throws in Pass 2
  request,          \* the query of GET /api/graph: rootDir and the exclude patterns
  response,         \* the status the GET /api/graph handler answered with, or "none"
  answer            \* what a lone call of the resolver and of the extractor returned

vars == <<disk, content, listing, tsconfig, given, settings, tsConfigBaseUrl, pc,
          scanned, k, nodeOrder, nodes, edges, visited, recursionStack,
          circularPairs, stack, expanded, prev, unreadable, request, response,
          answer>>

world == <<disk, content, listing, tsconfig, given, unreadable, request>>

caller == <<response, answer>>

----------------------------------------------------------------------------
(* fs: existsSync, statSync().isFile() / isDirectory(), readdirSync.       *)

RootDir == <<"/", "r">>

(* A snapshot d is [files, dirs]: its regular files and its directories,   *)
(* both sets of absolute paths.  The directories of a set of files:        *)
Dirs(files) ==
  UNION {{AbsPath(SubSeq(AbsSegs(f), 1, n)) : n \in 0..(Len(AbsSegs(f)) - 1)} :
           f \in files}

Snapshot(files) == [files |-> files, dirs |-> Dirs(files)]

IsFile(d, p) == p \in d.files

IsDirectory(d, p) == p \in d.dirs

ExistsSync(d, p) == IsFile(d, p) \/ IsDirectory(d, p)

(* The names in directory dir, in listing order.                           *)
Readdir(d, order, dir) ==
  LET prefix == IF dir = SLASH THEN SLASH ELSE dir \o SLASH
      names == {Split(SubSeq(p, Len(prefix) + 1, Len(p)))[1] :
                  p \in {q \in d.files : StartsWith(q, prefix)}}
  IN SelectSeq(order, LAMBDA n : n \in names)

----------------------------------------------------------------------------
(* Configuration.  A RegExp is modelled by the literal text it searches    *)
(* for: pattern.test(s) holds when s contains it.                          *)

RegExpTest(pattern, s) == Includes(s, pattern)

DefaultExtensions == <<<<".", "ts">>, <<".", "tsx">>, <<".", "js">>, <<".", "jsx">>>>

(* A variant in which no pattern ever matches.                             *)
shouldExcludeNever(st, filePath) == FALSE

shouldExclude(st, filePath) ==
  \E i \in 1..Len(st.excludePatterns) : RegExpTest(st.excludePatterns[i], filePath)

(* A variant that takes the include patterns for absent.                   *)
shouldIncludeAlways(st, filePath) == TRUE

shouldInclude(st, filePath) ==
  IF Len(st.includePatterns) = 0 THEN TRUE
  ELSE \E i \in 1..Len(st.includePatterns) : RegExpTest(st.includePatterns[i], filePath)

(* loadTsConfigPaths: the alias table and the base directory it stores.    *)
TsConfigPath(rootDir) == PathJoin(rootDir, <<"tsconfig", ".", "json">>)

\* The states of tsconfig.json.  jsonc.parseTree is fault tolerant: it does
\* not throw, and it returns no tree only when the text holds no value.
\*   "absent"      no such file
\*   "unreadable"  readFileSync throws; the catch returns {}
\*   "empty"       the text holds no JSON value: parseTree returns undefined
\*   "valid"       compilerOptions.paths and .baseUrl as given
\*   "strayText"   a complete document followed by stray text: a syntax error,
\*                 and the tree parseTree returns holds paths and baseUrl
\*   "nullPaths"   valid JSON whose compilerOptions.paths is null
TreeStates == {"valid", "strayText", "nullPaths"}

\* What the method returns (paths, or isNull when it returns null) and what it
\* stores in this.tsConfigBaseUrl.
loadTsConfigPaths(d, tc, rootDir) ==
  IF ExistsSync(d, TsConfigPath(rootDir)) /\ tc.state \in TreeStates
  THEN [paths |-> IF tc.state = "nullPaths" THEN <<>> ELSE tc.paths,
        isNull |-> tc.state = "nullPaths",
        baseUrl |-> PathResolve(rootDir, tc.baseUrl)]
  ELSE [paths |-> <<>>, isNull |-> FALSE, baseUrl |-> <<>>]

----------------------------------------------------------------------------
(* resolveImportPath.                                                      *)

NotFound == [found |-> FALSE, path |-> <<>>]

Found(p) == [found |-> TRUE, path |-> p]

MinOf(S) == CHOOSE i \in S : \A j \in S : i <= j

MaxOf(S) == CHOOSE i \in S : \A j \in S : j <= i

(* A variant in which the last matching extension of the list wins.        *)
ProbeLastExtension(d, exts, p) ==
  LET withExt == {i \in 1..Len(exts) : ExistsSync(d, p \o exts[i])}
      indexPath == PathJoin(p, <<"index">>)
      indexExt == {i \in 1..Len(exts) : ExistsSync(d, indexPath \o exts[i])}
  IN IF withExt # {} THEN Found(p \o exts[MaxOf(withExt)])
     ELSE IF ExistsSync(d, p) /\ IsFile(d, p) THEN Found(p)
     ELSE IF indexExt # {} THEN Found(indexPath \o exts[MaxOf(indexExt)])
     ELSE NotFound

(* The three-step probe of one base path: the path plus each extension in  *)
(* list order, the bare path if it is a file, index plus each extension.   *)
Probe(d, exts, p) ==
  LET withExt == {i \in 1..Len(exts) : ExistsSync(d, p \o exts[i])}
      indexPath == PathJoin(p, <<"index">>)
      indexExt == {i \in 1..Len(exts) : ExistsSync(d, indexPath \o exts[i])}
  IN IF withExt # {} THEN Found(p \o exts[MinOf(withExt)])
     ELSE IF ExistsSync(d, p) /\ IsFile(d, p) THEN Found(p)
     ELSE IF indexExt # {} THEN Found(indexPath \o exts[MinOf(indexExt)])
     ELSE NotFound

(* A variant that gives up after the first base path.                      *)
FirstProbeOnlyFirst(d, exts, bases) ==
  IF bases = <<>> THEN NotFound ELSE Probe(d, exts, bases[1])

(* The first base path of a list whose probe yields a file.                *)
FirstProbe(d, exts, bases) ==
  LET hit == {i \in 1..Len(bases) : Probe(d, exts, bases[i]).found}
  IN IF hit = {} THEN NotFound ELSE Probe(d, exts, bases[MinOf(hit)])

\* The regular expression the alias loop builds: every character of the
\* alias escaped, then each escaped star turned into the group "(.*)".
AliasRegExp(alias) ==
  [i \in 1..Len(alias) |-> IF alias[i] = "*" THEN "(.*)" ELSE alias[i]]

\* s.match(new RegExp("^" + pattern + "$")) succeeds.
RECURSIVE RegExpMatches(_, _)
RegExpMatches(pattern, s) ==
  IF pattern = <<>> THEN s = <<>>
  ELSE IF Head(pattern) = "(.*)"
       THEN \E n \in 0..Len(s) : RegExpMatches(Tail(pattern), SubSeq(s, n + 1, Len(s)))
       ELSE s # <<>> /\ Head(s) = Head(pattern) /\ RegExpMatches(Tail(pattern), Tail(s))

\* match[1] of a successful match: the first group is greedy, it takes the
\* longest text that lets the rest of the pattern match.
FirstGroup(pattern, s) ==
  LET g == IndexOf(pattern, "(.*)")
      rest == SubSeq(pattern, g + 1, Len(pattern))
      lens == {n \in 0..(Len(s) - g + 1) :
                 RegExpMatches(rest, SubSeq(s, g + n, Len(s)))}
  IN IF g = 0 THEN <<>> ELSE SubSeq(s, g, g + MaxOf(lens) - 1)

\* An alias against a specifier: [match, part], part being resolvedPart.  An
\* alias without a star matches the identical specifier.
AliasMatch(alias, importPath) ==
  IF Includes(alias, <<"*">>)
  THEN IF RegExpMatches(AliasRegExp(alias), importPath)
       THEN [match |-> TRUE, part |-> FirstGroup(AliasRegExp(alias), importPath)]
       ELSE [match |-> FALSE, part |-> <<>>]
  ELSE [match |-> importPath = alias, part |-> <<>>]

\* The text String.prototype.replace puts in place of the match when it is
\* given the string newSubstr: "$$" stands for "$", "$&" for the matched text
\* (the star), "$`" and "$'" for the text before and after the match.
RECURSIVE Expansion(_, _, _)
Expansion(newSubstr, before, after) ==
  IF newSubstr = <<>> THEN <<>>
  ELSE IF Head(newSubstr) = "$" /\ Len(newSubstr) >= 2
          /\ newSubstr[2] \in {"$", "&", "`", "'"}
       THEN (CASE newSubstr[2] = "$" -> <<"$">>
               [] newSubstr[2] = "&" -> <<"*">>
               [] newSubstr[2] = "`" -> before
               [] newSubstr[2] = "'" -> after)
            \o Expansion(SubSeq(newSubstr, 3, Len(newSubstr)), before, after)
       ELSE <<Head(newSubstr)>> \o Expansion(Tail(newSubstr), before, after)

(* A variant that puts the captured text in place of the star as it is.    *)
SubstitutePlain(replacement, part) ==
  IF Includes(replacement, <<"*">>)
  THEN LET star == IndexOf(replacement, "*")
       IN SubSeq(replacement, 1, star - 1) \o part
          \o SubSeq(replacement, star + 1, Len(replacement))
  ELSE replacement

\* replacement.replace(star, resolvedPart): the first star only.
Substitute(replacement, part) ==
  IF Includes(replacement, <<"*">>)
  THEN LET star == IndexOf(replacement, "*")
           before == SubSeq(replacement, 1, star - 1)
           after == SubSeq(replacement, star + 1, Len(replacement))
       IN before \o Expansion(part, before, after) \o after
  ELSE replacement

(* A variant that stops at the first alias that matches.                   *)
AliasBasesFirstMatchOnly(aliases, basePath, importPath) ==
  LET hit == {i \in 1..Len(aliases) : AliasMatch(aliases[i].alias, importPath).match}
  IN IF hit = {} THEN <<>>
     ELSE LET a == aliases[MinOf(hit)]
          IN [j \in 1..Len(a.replacements) |->
                PathJoin(basePath,
                         Substitute(a.replacements[j], AliasMatch(a.alias, importPath).part))]

(* The base paths the alias loop probes, in the order it probes them.      *)
RECURSIVE AliasBases(_, _, _)
AliasBases(aliases, basePath, importPath) ==
  IF aliases = <<>> THEN <<>>
  ELSE LET a == Head(aliases)
           m == AliasMatch(a.alias, importPath)
           here == IF m.match
                   THEN [j \in 1..Len(a.replacements) |->
                           PathJoin(basePath, Substitute(a.replacements[j], m.part))]
                   ELSE <<>>
       IN here \o AliasBases(Tail(aliases), basePath, importPath)

(* A variant that tries the analysis root before the aliases.              *)
NonRelativeBasesRootFirst(st, baseUrl, importPath) ==
  <<PathJoin(st.rootDir, importPath),
    PathJoin(st.rootDir, <<"src">> \o SLASH \o importPath)>>
  \o AliasBases(st.pathAliases, IF baseUrl # <<>> THEN baseUrl ELSE st.rootDir, importPath)
  \o (IF baseUrl # <<>> THEN <<PathJoin(baseUrl, importPath)>> ELSE <<>>)

(* The base paths of a specifier that does not start with ".".             *)
NonRelativeBases(st, baseUrl, importPath) ==
  AliasBases(st.pathAliases, IF baseUrl # <<>> THEN baseUrl ELSE st.rootDir, importPath)
  \o (IF baseUrl # <<>> THEN <<PathJoin(baseUrl, importPath)>> ELSE <<>>)
  \o <<PathJoin(st.rootDir, importPath),
       PathJoin(st.rootDir, <<"src">> \o SLASH \o importPath)>>

(* A variant that makes an alias or base-directory hit relative to the     *)
(* base directory instead of rootDir.                                      *)
resolveImportPathFromBase(d, st, baseUrl, importPath, fromFile) ==
  LET relative == StartsWith(importPath, DOT)
      bases == IF relative
               THEN <<PathResolve(PathDirname(fromFile), importPath)>>
               ELSE NonRelativeBases(st, baseUrl, importPath)
      hit == FirstProbe(d, st.extensions, bases)
      from == IF relative \/ baseUrl = <<>> THEN st.rootDir ELSE baseUrl
  IN IF hit.found THEN Found(PathRelative(from, hit.path)) ELSE NotFound

resolveImportPath(d, st, baseUrl, importPath, fromFile) ==
  LET bases == IF StartsWith(importPath, DOT)
               THEN <<PathResolve(PathDirname(fromFile), importPath)>>
               ELSE NonRelativeBases(st, baseUrl, importPath)
      hit == FirstProbe(d, st.extensions, bases)
  IN IF hit.found THEN Found(PathRelative(st.rootDir, hit.path)) ELSE NotFound

----------------------------------------------------------------------------
(* extractImports: the specifier literals of the text, each once, the      *)
(* package names dropped, the rest resolved.                               *)

\* alias.replace(/\/?\*$/, ""): a trailing star, and a "/" before it, removed.
AliasPrefix(alias) ==
  IF EndsWith(alias, <<"/", "*">>) THEN SubSeq(alias, 1, Len(alias) - 2)
  ELSE IF EndsWith(alias, <<"*">>) THEN SubSeq(alias, 1, Len(alias) - 1)
  ELSE alias

isPathAlias(st, importPath) ==
  \/ StartsWith(importPath, <<"@">>)
  \/ \E i \in 1..Len(st.pathAliases) :
       LET aliasPrefix == AliasPrefix(st.pathAliases[i].alias)
       IN importPath = aliasPrefix \/ StartsWith(importPath, aliasPrefix \o SLASH)

(* A variant that skips nothing.                                           *)
IsCandidateAlways(st, importPath) == TRUE

(* The specifiers the loop does not skip as npm packages.                  *)
IsCandidate(st, importPath) ==
  ~(/\ ~isPathAlias(st, importPath)
    /\ ~StartsWith(importPath, DOT)
    /\ ~StartsWith(importPath, SLASH)
    /\ ~Includes(importPath, SLASH))

(* A variant that takes null for a path as well.                           *)
TruthyAlways(r) == TRUE

(* if (resolvedPath): null and the empty string are both falsy.            *)
Truthy(r) == r.found /\ r.path # <<>>

extractImports(d, st, baseUrl, specifiers, filePath) ==
  LET allImports == SelectSeq(Dedup(specifiers), LAMBDA sp : IsCandidate(st, sp))
      res == [i \in 1..Len(allImports) |->
                resolveImportPath(d, st, baseUrl, allImports[i], filePath)]
      ok == {i \in 1..Len(allImports) : Truthy(res[i])}
      R[i \in 0..Len(allImports)] ==
        IF i = 0 THEN <<>>
        ELSE IF i \in ok THEN Append(R[i - 1], res[i].path) ELSE R[i - 1]
      U[i \in 0..Len(allImports)] ==
        IF i = 0 THEN <<>>
        ELSE IF i \in ok THEN U[i - 1] ELSE Append(U[i - 1], allImports[i])
  IN [resolved |-> Dedup(R[Len(allImports)]), unresolved |-> Dedup(U[Len(allImports)])]

----------------------------------------------------------------------------
(* scanDirectory.                                                          *)

SkippedDirs == {<<"node_modules">>, <<".", "git">>, <<"dist">>}

RECURSIVE scanDirectory(_, _, _, _)
scanDirectory(d, order, st, dir) ==
  LET entries == Readdir(d, order, dir)
      Of(name) ==
        LET fullPath == PathJoin(dir, name)
            relativePath == PathRelative(st.rootDir, fullPath)
        IN IF IsDirectory(d, fullPath)
           THEN (IF name \in SkippedDirs THEN <<>>
                 ELSE scanDirectory(d, order, st, fullPath))
           ELSE IF IsFile(d, fullPath)
                   /\ PathExtname(name) \in SeqToSet(st.extensions)
                   /\ ~shouldExclude(st, relativePath)
                   /\ shouldInclude(st, relativePath)
                THEN <<fullPath>>
                ELSE <<>>
      F[i \in 0..Len(entries)] ==
        IF i = 0 THEN <<>> ELSE F[i - 1] \o Of(entries[i])
  IN F[Len(entries)]

----------------------------------------------------------------------------
(* A parser that is not constructed yet, and the settings a caller passes  *)
(* when it sets only rootDir.                                              *)

TS == <<".", "ts">>
JS == <<".", "js">>

File(dirSegs, name, ext) == AbsPath(AbsSegs(RootDir) \o dirSegs \o <<name \o ext>>)

NoTsConfig == [state |-> "absent", paths |-> <<>>, baseUrl |-> <<>>]

DefaultGiven ==
  [rootDir |-> RootDir, excludePatterns |-> <<>>, includePatterns |-> <<>>,
   extensions |-> <<>>, hasPathAliases |-> FALSE, pathAliases |-> <<>>,
   nullAliases |-> FALSE]

NoBuild == [built |-> FALSE, nodeIds |-> {}, edgeSet |-> {}]

NoAnswer == [asked |-> FALSE]

NoRequest == [rootDir |-> <<>>, exclude |-> <<>>]

(* No parser exists yet.                                                   *)
NoParser ==
  /\ prev = NoBuild
  /\ response = "none"
  /\ answer = NoAnswer
  /\ settings = DefaultGiven
  /\ tsConfigBaseUrl = <<>>
  /\ scanned = <<>>
  /\ k = 1
  /\ nodeOrder = <<>>
  /\ nodes = <<>>
  /\ edges = <<>>
  /\ visited = {}
  /\ recursionStack = {}
  /\ circularPairs = {}
  /\ stack = <<>>
  /\ expanded = <<>>

(* The caller is about to run new DependencyParser(given).                 *)
ParserInit == pc = "new" /\ NoParser

----------------------------------------------------------------------------
(* new DependencyParser(settings).                                         *)

Construct ==
  /\ pc = "new"
  /\ LET loaded == loadTsConfigPaths(disk, tsconfig, given.rootDir)
     IN /\ settings' =
             [rootDir |-> given.rootDir,
              excludePatterns |-> given.excludePatterns,
              includePatterns |-> given.includePatterns,
              extensions |-> IF given.extensions = <<>> THEN DefaultExtensions
                             ELSE given.extensions,
              hasPathAliases |-> TRUE,
              pathAliases |-> IF given.hasPathAliases THEN given.pathAliases
                              ELSE loaded.paths,
              nullAliases |-> ~given.hasPathAliases /\ loaded.isNull]
        /\ tsConfigBaseUrl' = IF given.hasPathAliases THEN <<>> ELSE loaded.baseUrl
  /\ pc' = "ready"
  /\ UNCHANGED <<world, caller, prev, scanned, k, nodeOrder, nodes, edges, visited,
                 recursionStack, circularPairs, stack, expanded>>

----------------------------------------------------------------------------
(* parse(): the scan and Pass 1.  (A one-element \E names a value that is  *)
(* computed once, as a const declaration does.)                            *)

(* A variant in which visited outlives the call.                           *)
StartDetectKeepVisited(ns) ==
  /\ visited' = visited
  /\ recursionStack' = {}
  /\ circularPairs' = {}
  /\ stack' = <<>>
  /\ expanded' = [id \in DOMAIN ns |-> 0]

(* The first lines of detectCircularDependencies: fresh, empty sets.       *)
StartDetect(ns) ==
  /\ visited' = {}
  /\ recursionStack' = {}
  /\ circularPairs' = {}
  /\ stack' = <<>>
  /\ expanded' = [id \in DOMAIN ns |-> 0]

NewNode == [imports |-> <<>>, importedBy |-> <<>>, unresolvedImports |-> <<>>]

ScanAndCreateNodes ==
  /\ pc = "ready"
  /\ \E files \in {scanDirectory(disk, listing, settings, settings.rootDir)} :
     \E ids \in {[i \in 1..Len(files) |-> PathRelative(settings.rootDir, files[i])]} :
        /\ scanned' = files
        /\ nodeOrder' = nodeOrder \o SelectSeq(ids, LAMBDA id : id \notin DOMAIN nodes)
        /\ nodes' = [id \in DOMAIN nodes \cup SeqToSet(ids) |->
                       IF id \in SeqToSet(ids) THEN NewNode ELSE nodes[id]]
        /\ pc' = IF files = <<>> THEN "dfs" ELSE "pass2"
        /\ IF files = <<>> THEN StartDetect(nodes')
           ELSE UNCHANGED <<visited, recursionStack, circularPairs, stack, expanded>>
  /\ k' = 1
  /\ UNCHANGED <<world, caller, prev, settings, tsConfigBaseUrl, edges>>

(* parse(): one iteration of the Pass 2 loop.                              *)

(* A variant that takes every resolved path for a node of the graph.       *)
InGraphAlways(ns, imp) == TRUE

(* this.graph.nodes.has(imp), and the truth of this.graph.nodes.get(imp).  *)
InGraph(ns, imp) == imp \in DOMAIN ns

(* node.imports = resolved.filter(...)                                     *)
KeptImports(st, ns, resolved) ==
  SelectSeq(resolved, LAMBDA imp : ~shouldExclude(st, imp) /\ InGraph(ns, imp))

(* The imports the inner loop finds a targetNode for.                      *)
Targets(ns, imports) == SelectSeq(imports, LAMBDA imp : InGraph(ns, imp))

(* A variant that leaves importedBy alone.                                 *)
UpdatedNodesNoImportedBy(ns, relativePath, imports, unresolved) ==
  [id \in DOMAIN ns |->
     [imports |-> IF id = relativePath THEN imports ELSE ns[id].imports,
      importedBy |-> ns[id].importedBy,
      unresolvedImports |-> IF id = relativePath /\ Len(unresolved) > 0
                            THEN unresolved
                            ELSE ns[id].unresolvedImports]]

(* The nodes after the iteration for relativePath: its imports and its     *)
(* unresolvedImports assigned, relativePath pushed on each target's        *)
(* importedBy.                                                             *)
UpdatedNodes(ns, relativePath, imports, unresolved) ==
  [id \in DOMAIN ns |->
     [imports |-> IF id = relativePath THEN imports ELSE ns[id].imports,
      importedBy |-> IF id \in SeqToSet(Targets(ns, imports))
                     THEN Append(ns[id].importedBy, relativePath)
                     ELSE ns[id].importedBy,
      unresolvedImports |-> IF id = relativePath /\ Len(unresolved) > 0
                            THEN unresolved
                            ELSE ns[id].unresolvedImports]]

(* A variant for a builder that creates a node when it reaches its file:   *)
(* an edge only to a target that is listed before its importer.            *)
NewEdgesListedBefore(ns, relativePath, imports) ==
  LET targets == SelectSeq(Targets(ns, imports),
                           LAMBDA imp : IndexOf(nodeOrder, imp)
                                          < IndexOf(nodeOrder, relativePath))
  IN [i \in 1..Len(targets) |->
        [source |-> relativePath, target |-> targets[i], circular |-> FALSE]]

(* The edges the inner loop pushes.                                        *)
NewEdges(ns, relativePath, imports) ==
  LET targets == Targets(ns, imports)
  IN [i \in 1..Len(targets) |->
        [source |-> relativePath, target |-> targets[i], circular |-> FALSE]]

\* The iteration throws out of parse(): readFileSync fails, or
\* Object.keys / Object.entries is handed a pathAliases that is null, which
\* happens at the first specifier the text holds.
Pass2Throw(file) ==
  \/ file \in unreadable
  \/ settings.nullAliases /\ content[file] # <<>>

Pass2Throws ==
  /\ pc = "pass2"
  /\ k <= Len(scanned)
  /\ Pass2Throw(scanned[k])
  /\ pc' = "failed"
  /\ UNCHANGED <<world, caller, prev, settings, tsConfigBaseUrl, scanned, k, nodeOrder,
                 nodes, edges, visited, recursionStack, circularPairs, stack, expanded>>

Pass2File ==
  /\ pc = "pass2"
  /\ k <= Len(scanned)
  /\ ~Pass2Throw(scanned[k])
  /\ \E file \in {scanned[k]} :
     \E relativePath \in {PathRelative(settings.rootDir, file)} :
     \E ex \in {extractImports(disk, settings, tsConfigBaseUrl, content[file], file)} :
     \E imports \in {KeptImports(settings, nodes, ex.resolved)} :
        /\ nodes' = IF relativePath \in DOMAIN nodes
                    THEN UpdatedNodes(nodes, relativePath, imports, ex.unresolved)
                    ELSE nodes
        /\ edges' = IF relativePath \in DOMAIN nodes
                    THEN edges \o NewEdges(nodes, relativePath, imports)
                    ELSE edges
  /\ k' = k + 1
  /\ pc' = IF k = Len(scanned) THEN "dfs" ELSE "pass2"
  /\ IF k = Len(scanned) THEN StartDetect(nodes')
     ELSE UNCHANGED <<visited, recursionStack, circularPairs, stack, expanded>>
  /\ UNCHANGED <<world, caller, prev, settings, tsConfigBaseUrl, scanned, nodeOrder>>

----------------------------------------------------------------------------
(* detectCircularDependencies.  A frame of stack is one activation of dfs: *)
(* its nodeId, the index i of the import its loop looks at next, and its   *)
(* own copy of path.                                                       *)

Enter(nodeId, path) ==
  /\ visited' = visited \cup {nodeId}
  /\ recursionStack' = recursionStack \cup {nodeId}
  /\ stack' = Append(stack, [nodeId |-> nodeId, i |-> 1, path |-> Append(path, nodeId)])
  /\ expanded' = [expanded EXCEPT ![nodeId] = @ + 1]

Unvisited == {j \in 1..Len(nodeOrder) : nodeOrder[j] \notin visited}

(* The loop over this.graph.nodes.keys(): the next key not yet visited.    *)
DfsRoot ==
  /\ pc = "dfs"
  /\ stack = <<>>
  /\ Unvisited # {}
  /\ Enter(nodeOrder[MinOf(Unvisited)], <<>>)
  /\ UNCHANGED <<world, caller, prev, settings, tsConfigBaseUrl, pc, scanned, k, nodeOrder,
                 nodes, edges, circularPairs>>

Top == stack[Len(stack)]

Advance == [stack EXCEPT ![Len(stack)].i = @ + 1]

HasNext == pc = "dfs" /\ stack # <<>> /\ Top.i <= Len(nodes[Top.nodeId].imports)

NextImport == nodes[Top.nodeId].imports[Top.i]

(* A variant that takes only the nodes on the recursion stack for visited. *)
SeenOnStack(importId) == importId \in recursionStack

(* visited.has(importId)                                                   *)
Seen(importId) == importId \in visited

(* if (!visited.has(importId)) dfs(importId, [...path])                    *)
DfsDescend ==
  /\ HasNext
  /\ ~Seen(NextImport)
  /\ visited' = visited \cup {NextImport}
  /\ recursionStack' = recursionStack \cup {NextImport}
  /\ stack' = Append(Advance, [nodeId |-> NextImport, i |-> 1,
                               path |-> Append(Top.path, NextImport)])
  /\ expanded' = [expanded EXCEPT ![NextImport] = @ + 1]
  /\ UNCHANGED <<world, caller, prev, settings, tsConfigBaseUrl, pc, scanned, k, nodeOrder,
                 nodes, edges, circularPairs>>

(* A variant that records the pairs of the whole path.                     *)
CyclePairsWholePath(path, cycleStart) ==
  {<<path[i], IF i = Len(path) THEN path[cycleStart] ELSE path[i + 1]>> :
     i \in 1..Len(path)}

(* The pairs the inner loop records for the path suffix from cycleStart.   *)
CyclePairs(path, cycleStart) ==
  {<<path[i], IF i = Len(path) THEN path[cycleStart] ELSE path[i + 1]>> :
     i \in cycleStart..Len(path)}

(* else if (recursionStack.has(importId)) { ... circularPairs.add ... }    *)
DfsCycle ==
  /\ HasNext
  /\ Seen(NextImport)
  /\ NextImport \in recursionStack
  /\ LET cycleStart == IndexOf(Top.path, NextImport)
     IN circularPairs' = IF cycleStart # 0
                         THEN circularPairs \cup CyclePairs(Top.path, cycleStart)
                         ELSE circularPairs
  /\ stack' = Advance
  /\ UNCHANGED <<world, caller, prev, settings, tsConfigBaseUrl, pc, scanned, k, nodeOrder,
                 nodes, edges, visited, recursionStack, expanded>>

(* A visited import that is not on the recursion stack: nothing happens.   *)
DfsSkip ==
  /\ HasNext
  /\ Seen(NextImport)
  /\ NextImport \notin recursionStack
  /\ stack' = Advance
  /\ UNCHANGED <<world, caller, prev, settings, tsConfigBaseUrl, pc, scanned, k, nodeOrder,
                 nodes, edges, visited, recursionStack, circularPairs, expanded>>

(* The loop is over: recursionStack.delete(nodeId); path.pop(); return.    *)
DfsReturn ==
  /\ pc = "dfs"
  /\ stack # <<>>
  /\ Top.i > Len(nodes[Top.nodeId].imports)
  /\ recursionStack' = recursionStack \ {Top.nodeId}
  /\ stack' = SubSeq(stack, 1, Len(stack) - 1)
  /\ UNCHANGED <<world, caller, prev, settings, tsConfigBaseUrl, pc, scanned, k, nodeOrder,
                 nodes, edges, visited, circularPairs, expanded>>

(* The final loop over this.graph.edges; parse() returns this.graph.       *)
MarkEdges ==
  /\ pc = "dfs"
  /\ stack = <<>>
  /\ Unvisited = {}
  /\ edges' = [i \in 1..Len(edges) |->
                 IF <<edges[i].source, edges[i].target>> \in circularPairs
                 THEN [edges[i] EXCEPT !.circular = TRUE]
                 ELSE edges[i]]
  /\ pc' = "done"
  /\ UNCHANGED <<world, caller, prev, settings, tsConfigBaseUrl, scanned, k, nodeOrder, nodes,
                 visited, recursionStack, circularPairs, stack, expanded>>

(* A second build over the same snapshot and configuration: parse() is    *)
(* called again on the same parser, or a new parser is made as the server  *)
(* does for each request.                                                  *)
ReturnedGraph ==
  [built |-> TRUE, nodeIds |-> DOMAIN nodes,
   edgeSet |-> {edges[i] : i \in 1..Len(edges)}]

ParseAgain ==
  /\ pc = "done"
  /\ ~prev.built
  /\ prev' = ReturnedGraph
  /\ pc' = "ready"
  /\ UNCHANGED <<world, caller, settings, tsConfigBaseUrl, scanned, k, nodeOrder,
                 nodes, edges, visited, recursionStack, circularPairs, stack, expanded>>

NewParser ==
  /\ pc = "done"
  /\ ~prev.built
  /\ prev' = ReturnedGraph
  /\ pc' = "new"
  /\ settings' = DefaultGiven
  /\ tsConfigBaseUrl' = <<>>
  /\ scanned' = <<>>
  /\ k' = 1
  /\ nodeOrder' = <<>>
  /\ nodes' = <<>>
  /\ edges' = <<>>
  /\ visited' = {}
  /\ recursionStack' = {}
  /\ circularPairs' = {}
  /\ stack' = <<>>
  /\ expanded' = <<>>
  /\ UNCHANGED <<world, caller>>

Next ==
  \/ Construct
  \/ ScanAndCreateNodes
  \/ Pass2File
  \/ DfsRoot
  \/ DfsDescend
  \/ DfsCycle
  \/ DfsSkip
  \/ DfsReturn
  \/ MarkEdges

----------------------------------------------------------------------------
(* Initial states: a directory snapshot, a configuration, and a parser     *)
(* about to be constructed.                                                *)

(* Import graphs: the modules a, b, c, d of one directory, each importing  *)
(* the others (and itself) by relative specifiers, in every order.         *)
MaxEdges == 4

GraphNames == <<<<"a">>, <<"b">>, <<"c">>, <<"d">>>>

GraphFiles == [i \in 1..Len(GraphNames) |-> File(<<>>, GraphNames[i], TS)]

GraphSpecifiers == {DOT \o SLASH \o GraphNames[i] : i \in 1..Len(GraphNames)}

ImportLists ==
  UNION {{l \in [1..n -> GraphSpecifiers] : \A i, j \in 1..n : i # j => l[i] # l[j]} :
           n \in 0..Len(GraphNames)}

(* One import list per file, at most budget specifiers in all.             *)
RECURSIVE GraphContents(_, _)
GraphContents(n, budget) ==
  IF n = 0 THEN {<<>>}
  ELSE UNION {{<<l>> \o rest : rest \in GraphContents(n - 1, budget - Len(l))} :
                l \in {x \in ImportLists : Len(x) <= budget}}

InitGraph ==
  /\ disk = Snapshot(SeqToSet(GraphFiles))
  /\ \E c \in GraphContents(Len(GraphNames), MaxEdges) :
       content = [f \in SeqToSet(GraphFiles) |-> c[IndexOf(GraphFiles, f)]]
  /\ listing = [i \in 1..Len(GraphNames) |-> GraphNames[i] \o TS]
  /\ tsconfig = NoTsConfig
  /\ given = DefaultGiven
  /\ unreadable = {}
  /\ request = NoRequest
  /\ ParserInit

SpecGraph == InitGraph /\ [][Next]_vars

(* The same import graphs, smaller, each built twice.                      *)
MaxRebuildEdges == 3

InitTwice ==
  /\ disk = Snapshot(SeqToSet(GraphFiles))
  /\ \E c \in GraphContents(Len(GraphNames), MaxRebuildEdges) :
       content = [f \in SeqToSet(GraphFiles) |-> c[IndexOf(GraphFiles, f)]]
  /\ listing = [i \in 1..Len(GraphNames) |-> GraphNames[i] \o TS]
  /\ tsconfig = NoTsConfig
  /\ given = DefaultGiven
  /\ unreadable = {}
  /\ request = NoRequest
  /\ ParserInit

NextTwice == Next \/ ParseAgain \/ NewParser

SpecTwice == InitTwice /\ [][NextTwice]_vars

----------------------------------------------------------------------------
(* GET /api/graph (server.ts).  The handler compiles the exclude patterns, *)
(* checks the root directory, constructs a parser, runs parse() and        *)
(* answers; whatever is thrown on the way is answered with status 500.     *)

\* excludePatterns.push(new RegExp(pattern)) inside try/catch: a pattern that
\* does not compile is left out.
CompiledPatterns(patterns) ==
  LET valid == SelectSeq(patterns, LAMBDA pt : pt.valid)
  IN [i \in 1..Len(valid) |-> valid[i].text]

(* A variant that turns away only a path that does not exist.              *)
RootRejectedIfMissing(d, rootDir) == ~ExistsSync(d, rootDir)

(* The two checks that answer 400.                                         *)
RootRejected(d, rootDir) ==
  ~ExistsSync(d, rootDir) \/ ~IsDirectory(d, rootDir)

HandleRequest ==
  /\ pc = "request"
  /\ IF RootRejected(disk, request.rootDir)
     THEN /\ response' = "400"
          /\ pc' = "responded"
          /\ given' = given
     ELSE /\ response' = response
          /\ pc' = "new"
          /\ given' = [DefaultGiven EXCEPT
                         !.rootDir = request.rootDir,
                         !.excludePatterns = CompiledPatterns(request.exclude),
                         !.extensions = DefaultExtensions]
  /\ UNCHANGED <<disk, content, listing, tsconfig, unreadable, request, answer, prev,
                 settings, tsConfigBaseUrl, scanned, k, nodeOrder, nodes, edges,
                 visited, recursionStack, circularPairs, stack, expanded>>

(* res.json(result) after parse() returned.                                *)
Respond ==
  /\ pc = "done"
  /\ response' = "200"
  /\ pc' = "responded"
  /\ UNCHANGED <<world, answer, prev, settings, tsConfigBaseUrl, scanned, k, nodeOrder,
                 nodes, edges, visited, recursionStack, circularPairs, stack, expanded>>

(* catch (error) { res.status(500) ... }                                   *)
Catch ==
  /\ pc = "failed"
  /\ response' = "500"
  /\ pc' = "responded"
  /\ UNCHANGED <<world, answer, prev, settings, tsConfigBaseUrl, scanned, k, nodeOrder,
                 nodes, edges, visited, recursionStack, circularPairs, stack, expanded>>

NextServer == Next \/ Pass2Throws \/ HandleRequest \/ Respond \/ Catch

(* Requests over the import graphs: the root is the directory, one of its  *)
(* files or a path that does not exist; tsconfig.json is in each of its    *)
(* states; at most one file cannot be read.                                *)
MaxServerEdges == 2

Gone == <<"/", "gone">>

BadPattern == [valid |-> FALSE, text |-> <<>>]

PatternD == [valid |-> TRUE, text |-> <<"d">>]

ExcludeQueries == {<<>>, <<BadPattern>>, <<BadPattern, PatternD>>}

ServerTsConfigs ==
  {NoTsConfig} \cup
  {[state |-> st, baseUrl |-> DOT,
    paths |-> <<[alias |-> <<"@", "/", "*">>, replacements |-> <<<<"*">>>>]>>] :
     st \in {"unreadable", "empty", "valid", "strayText", "nullPaths"}}

InitServer ==
  /\ tsconfig \in ServerTsConfigs
  /\ disk = Snapshot(SeqToSet(GraphFiles)
                     \cup (IF tsconfig.state = "absent" THEN {}
                           ELSE {TsConfigPath(RootDir)}))
  /\ \E c \in GraphContents(Len(GraphNames), MaxServerEdges) :
       content = [f \in disk.files |->
                    IF f \in SeqToSet(GraphFiles) THEN c[IndexOf(GraphFiles, f)]
                    ELSE <<>>]
  /\ listing = [i \in 1..Len(GraphNames) |-> GraphNames[i] \o TS]
                 \o <<<<"tsconfig", ".", "json">>>>
  /\ unreadable \in {{}} \cup {{f} : f \in SeqToSet(GraphFiles)}
  /\ request \in [rootDir : {RootDir, GraphFiles[1], Gone}, exclude : ExcludeQueries]
  /\ request.rootDir # RootDir
       => /\ unreadable = {}
          /\ tsconfig = NoTsConfig
          /\ \A f \in disk.files : content[f] = <<>>
  /\ given = DefaultGiven
  /\ pc = "request"
  /\ NoParser

SpecServer == InitServer /\ [][NextServer]_vars

----------------------------------------------------------------------------
(* Source trees: /r/a.ts and /r/app/b.ts import; /r/lib/common.ts,         *)
(* /r/lib/common.js and /r/b.test.ts are imported.  a.ts holds up to       *)
(* MaxSpecs specifiers of the pool, in pool order.                         *)
MaxSpecs == 2

AT == <<"@">>

FileA == File(<<>>, <<"a">>, TS)
FileB == File(<<<<"app">>>>, <<"b">>, TS)
CommonTs == File(<<<<"lib">>>>, <<"common">>, TS)
CommonJs == File(<<<<"lib">>>>, <<"common">>, JS)
TestTs == File(<<>>, <<"b", ".", "test">>, TS)

Layouts ==
  {{FileA, FileB} \cup opt :
     opt \in {{CommonTs, CommonJs, TestTs}, {CommonTs, CommonJs}, {CommonJs, TestTs},
              {CommonTs}}}

TsConfigJson == <<"tsconfig", ".", "json">>

Listing ==
  <<<<"a", ".", "ts">>, <<"app">>, <<"b", ".", "ts">>, <<"b", ".", "test", ".", "ts">>,
    <<"lib">>, <<"common", ".", "js">>, <<"common", ".", "ts">>, TsConfigJson>>

LibCommon == <<"lib", "/", "common">>

Pool ==
  <<DOT \o SLASH \o LibCommon,            \* "./lib/common"
    AT \o SLASH \o LibCommon,             \* "@/lib/common"
    SLASH \o LibCommon,                   \* "/lib/common"
    DOT \o SLASH \o <<"b", ".", "test">>, \* "./b.test"
    <<"react">>,                          \* "react"
    <<"a">>,                              \* "a"
    AT \o <<"foo">>,                      \* "@foo"
    DOT \o SLASH \o <<"a">>,              \* "./a"
    DOT \o SLASH \o <<"a", ".", "ts">> >> \* "./a.ts"

ContentsOfA ==
  {SelectSeq([i \in 1..Len(Pool) |-> i], LAMBDA i : i \in S) :
     S \in {T \in SUBSET (1..Len(Pool)) : Cardinality(T) <= MaxSpecs}}

ContentsOfB ==
  {<<>>,
   <<DOTDOT \o SLASH \o LibCommon>>,                 \* "../lib/common"
   <<DOTDOT \o SLASH \o <<"a">>>>,                   \* "../a"
   <<AT \o SLASH \o <<"b", ".", "test">>>>,         \* "@/b.test"
   <<DOTDOT \o SLASH \o TsConfigJson>>}             \* "../tsconfig.json"

ExtensionLists == {<<TS, JS>>, <<JS, TS>>}

ExcludeLists == {<<>>, <<<<".", "test", ".">>>>}     \* none, or /\.test\./

TsConfigs ==
  {NoTsConfig,
   \* { baseUrl: ".", paths: { "@/*": ["*"] } }
   [state |-> "valid", baseUrl |-> DOT,
    paths |-> <<[alias |-> <<"@", "/", "*">>, replacements |-> <<<<"*">>>>]>>],
   \* { baseUrl: "./app", paths: { "@/*": ["../*"], "a/*": ["../*"] } }
   [state |-> "valid", baseUrl |-> DOT \o SLASH \o <<"app">>,
    paths |-> <<[alias |-> <<"@", "/", "*">>,
                 replacements |-> <<DOTDOT \o SLASH \o <<"*">>>>],
                [alias |-> <<"a", "/", "*">>,
                 replacements |-> <<DOTDOT \o SLASH \o <<"*">>>>]>>]}

Init ==
  /\ tsconfig \in TsConfigs
  /\ \E files \in Layouts :
       disk = Snapshot(files \cup (IF tsconfig.state = "absent" THEN {}
                                   ELSE {PathJoin(RootDir, TsConfigJson)}))
  /\ \E ca \in ContentsOfA, cb \in ContentsOfB :
       content = [f \in disk.files |->
                    IF f = FileA THEN [i \in 1..Len(ca) |-> Pool[ca[i]]]
                    ELSE IF f = FileB THEN cb ELSE <<>>]
  /\ listing = Listing
  /\ \E exts \in ExtensionLists, excl \in ExcludeLists :
       given = [DefaultGiven EXCEPT !.extensions = exts, !.excludePatterns = excl]
  /\ unreadable = {}
  /\ request = NoRequest
  /\ ParserInit

Spec == Init /\ [][Next]_vars

----------------------------------------------------------------------------
(* Lone calls of resolveImportPath and extractImports on a constructed     *)
(* parser, over trees that hold up to MaxTreeFiles of the files the        *)
(* strategies can reach.                                                   *)
MaxTreeFiles == 3

\* What one call computes: the value resolveImportPath returns, the aliasPath
\* values of its alias loop (the paths its DEBUG lines print when no probe
\* hits), and what extractImports returns for a text holding the specifier.
Ask ==
  /\ pc = "ready"
  /\ ~answer.asked
  /\ \E importPath \in SeqToSet(content[FileA]), fromFile \in {FileA, FileB} :
       answer' =
         [asked |-> TRUE, importPath |-> importPath, fromFile |-> fromFile,
          returned |-> resolveImportPath(disk, settings, tsConfigBaseUrl,
                                         importPath, fromFile),
          aliasPaths |-> AliasBases(settings.pathAliases,
                                    IF tsConfigBaseUrl # <<>> THEN tsConfigBaseUrl
                                    ELSE settings.rootDir,
                                    importPath),
          extracted |-> extractImports(disk, settings, tsConfigBaseUrl,
                                       <<importPath>>, fromFile)]
  /\ UNCHANGED <<world, response, prev, settings, tsConfigBaseUrl, pc, scanned, k,
                 nodeOrder, nodes, edges, visited, recursionStack, circularPairs,
                 stack, expanded>>

NextResolve == Construct \/ Ask

AppDir == PathJoin(RootDir, <<"app">>)

\* The alias table, in iteration order:
\*   "lib/*" -> ["x/*", "y/*"]     "utils" -> ["x/*common"]
\*   "tools" -> ["y/common"]       "a*b"   -> ["x/*"]
\*   "*"     -> ["z/*"]
AliasTable ==
  <<[alias |-> <<"lib", "/", "*">>,
     replacements |-> <<<<"x", "/", "*">>, <<"y", "/", "*">>>>],
    [alias |-> <<"utils">>, replacements |-> <<<<"x", "/", "*", "common">>>>],
    [alias |-> <<"tools">>, replacements |-> <<<<"y", "/", "common">>>>],
    [alias |-> <<"a", "*", "b">>, replacements |-> <<<<"x", "/", "*">>>>],
    [alias |-> <<"*">>, replacements |-> <<<<"z", "/", "*">>>>]>>

\* The configurations: no aliases; the table passed to the constructor (no
\* base directory); the table read from tsconfig.json with baseUrl "./app".
ResolveConfigs ==
  {[given |-> [DefaultGiven EXCEPT !.extensions = <<TS, JS>>],
    tsconfig |-> NoTsConfig, base |-> RootDir],
   [given |-> [DefaultGiven EXCEPT !.extensions = <<TS, JS>>,
                                   !.hasPathAliases = TRUE,
                                   !.pathAliases = AliasTable],
    tsconfig |-> NoTsConfig, base |-> RootDir],
   [given |-> [DefaultGiven EXCEPT !.extensions = <<TS, JS>>],
    tsconfig |-> [state |-> "valid", baseUrl |-> DOT \o SLASH \o <<"app">>,
                  paths |-> AliasTable],
    base |-> AppDir]}

\* The files a strategy can reach for one of the specifiers asked, base being
\* the directory alias paths are joined against.
Reachable(base) ==
  {PathJoin(base, <<"x", "/", "common", ".", "ts">>),
   PathJoin(base, <<"y", "/", "common", ".", "ts">>),
   PathJoin(base, <<"z", "/", "lib", "/", "common", ".", "ts">>),
   PathJoin(base, <<"z", "/", "react", ".", "ts">>),
   PathJoin(base, <<"x", "/", "$", "$", "id", ".", "ts">>),
   PathJoin(base, <<"x", "/", "$", "id", ".", "ts">>),
   PathJoin(AppDir, LibCommon \o TS),
   PathJoin(RootDir, LibCommon \o TS),
   PathJoin(RootDir, LibCommon \o JS),
   PathJoin(RootDir, <<"src", "/">> \o LibCommon \o TS),
   PathJoin(RootDir, LibCommon),
   PathJoin(RootDir, LibCommon \o <<"/", "index", ".", "ts">>),
   PathJoin(RootDir, LibCommon \o TS \o <<"/", "index", ".", "ts">>)}

\* No path of a tree is both a file and a directory.
IsTree(files) == files \cap Dirs(files) = {}

Asked ==
  <<LibCommon,                                  \* "lib/common"
    DOT \o SLASH \o LibCommon,                  \* "./lib/common"
    DOTDOT \o SLASH \o LibCommon,               \* "../lib/common"
    SLASH \o LibCommon,                         \* "/lib/common"
    <<"utils">>, <<"tools">>, <<"react">>,
    <<"a", "m", "b">>, <<"a", "b">>, <<"a">>,   \* "amb", "ab", "a"
    <<"lib", "/", "$", "$", "id">> >>           \* "lib/$$id"

InitResolve ==
  /\ \E cfg \in ResolveConfigs :
       /\ given = cfg.given
       /\ tsconfig = cfg.tsconfig
       /\ \E files \in SUBSET Reachable(cfg.base) :
            /\ Cardinality(files) <= MaxTreeFiles
            /\ IsTree(files)
            /\ disk = Snapshot(files \cup {FileA, FileB}
                               \cup (IF cfg.tsconfig.state = "absent" THEN {}
                                     ELSE {TsConfigPath(RootDir)}))
  /\ content = [f \in disk.files |-> IF f = FileA THEN Asked ELSE <<>>]
  /\ listing = <<>>
  /\ unreadable = {}
  /\ request = NoRequest
  /\ ParserInit

SpecResolve == InitResolve /\ [][NextResolve]_vars

----------------------------------------------------------------------------
(* Orderings.  The modules a, b and c, with up to MaxOrderEdges imports by *)
(* relative specifiers, are built; then readdirSync lists the same files   *)
(* in another order, each file holds the same imports in another order,    *)
(* and a new parser builds the graph again.                                *)
MaxOrderEdges == 4

OrderFiles == SubSeq(GraphFiles, 1, 3)

OrderListing == [i \in 1..Len(OrderFiles) |-> GraphNames[i] \o TS]

OrderSpecifiers == {DOT \o SLASH \o GraphNames[i] : i \in 1..Len(OrderFiles)}

OrderContents ==
  {c \in GraphContents(Len(OrderFiles), MaxOrderEdges) :
     \A i \in 1..Len(c) : SeqToSet(c[i]) \subseteq OrderSpecifiers}

(* The orders a sequence of distinct elements can be put in.               *)
Orderings(seq) ==
  {p \in [1..Len(seq) -> SeqToSet(seq)] : \A i, j \in 1..Len(seq) : i # j => p[i] # p[j]}

Relist ==
  /\ pc = "done"
  /\ ~prev.built
  /\ prev' = ReturnedGraph
  /\ listing' \in Orderings(listing)
  /\ content' \in {c \in [DOMAIN content ->
                             UNION {Orderings(content[f]) : f \in DOMAIN content}] :
                     \A f \in DOMAIN content : c[f] \in Orderings(content[f])}
  /\ pc' = "new"
  /\ settings' = DefaultGiven
  /\ tsConfigBaseUrl' = <<>>
  /\ scanned' = <<>>
  /\ k' = 1
  /\ nodeOrder' = <<>>
  /\ nodes' = <<>>
  /\ edges' = <<>>
  /\ visited' = {}
  /\ recursionStack' = {}
  /\ circularPairs' = {}
  /\ stack' = <<>>
  /\ expanded' = <<>>
  /\ UNCHANGED <<disk, tsconfig, given, unreadable, request, caller>>

NextOrder == Next \/ Relist

InitOrder ==
  /\ disk = Snapshot(SeqToSet(OrderFiles))
  /\ \E c \in OrderContents :
       content = [f \in SeqToSet(OrderFiles) |-> c[IndexOf(OrderFiles, f)]]
  /\ listing = OrderListing
  /\ tsconfig = NoTsConfig
  /\ given = DefaultGiven
  /\ unreadable = {}
  /\ request = NoRequest
  /\ ParserInit

SpecOrder == InitOrder /\ [][NextOrder]_vars

(* One build of the same graphs.  detectCircularDependencies is one        *)
(* synchronous call: a step of it that can be taken is taken.              *)
DetectStep == DfsRoot \/ DfsDescend \/ DfsCycle \/ DfsSkip \/ DfsReturn \/ MarkEdges

SpecDetect == InitOrder /\ [][Next]_vars /\ WF_vars(DetectStep)

----------------------------------------------------------------------------
(* Scans.  Trees of up to MaxScanFiles files, some of them inside          *)
(* node_modules, .git and dist directories at the root and below lib, are  *)
(* scanned from /r, /r/lib or /r/dist with and without exclude and include *)
(* patterns.                                                               *)
MaxScanFiles == 3

MD == <<".", "md">>

NodeModules == <<"node_modules">>

DotGit == <<".", "git">>

Dist == <<"dist">>

Lib == <<"lib">>

ScanPool ==
  {File(<<>>, <<"a">>, TS),                     \* a.ts
   File(<<>>, <<"dist">>, TS),                  \* dist.ts, a file
   File(<<>>, <<"c">>, MD),                     \* c.md
   File(<<Lib>>, <<"b">>, TS),                  \* lib/b.ts
   File(<<Lib>>, <<"b", ".", "test">>, TS),     \* lib/b.test.ts
   File(<<Lib, NodeModules>>, <<"q">>, TS),     \* lib/node_modules/q.ts
   File(<<Lib, <<"src">>, Dist>>, <<"o">>, JS), \* lib/src/dist/o.js
   File(<<NodeModules, <<"p">>>>, <<"i">>, TS), \* node_modules/p/i.ts
   File(<<DotGit>>, <<"h">>, TS),               \* .git/h.ts
   File(<<Dist>>, <<"o">>, JS),                 \* dist/o.js
   File(<<Dist>>, <<"b", ".", "test">>, TS)}    \* dist/b.test.ts

ScanListing ==
  <<<<"a", ".", "ts">>, DotGit, <<"h", ".", "ts">>, Dist, <<"dist", ".", "ts">>,
    <<"o", ".", "js">>, <<"c", ".", "md">>, Lib, <<"b", ".", "test", ".", "ts">>,
    <<"b", ".", "ts">>, NodeModules, <<"p">>, <<"i", ".", "ts">>, <<"q", ".", "ts">>,
    <<"src">>>>

ScanRoots == {RootDir, PathJoin(RootDir, Lib), PathJoin(RootDir, Dist)}

ScanExtensionLists == {<<>>, <<TS, MD>>}          \* the default list, or ['.ts', '.md']

ScanExcludeLists == {<<>>, <<<<".", "test", ".">>>>, <<Lib, <<"c">>>>}

ScanIncludeLists == {<<>>, <<Lib>>, <<<<".", "test", ".">>, <<"a">>>>}

NextScan == Construct \/ ScanAndCreateNodes

InitScan ==
  /\ \E files \in {S \in SUBSET ScanPool : S # {} /\ Cardinality(S) <= MaxScanFiles} :
       disk = Snapshot(files)
  /\ content = [f \in disk.files |-> <<>>]
  /\ listing = ScanListing
  /\ tsconfig = NoTsConfig
  /\ \E root \in ScanRoots \cap disk.dirs, exts \in ScanExtensionLists,
        excl \in ScanExcludeLists, incl \in ScanIncludeLists :
       given = [DefaultGiven EXCEPT !.rootDir = root, !.extensions = exts,
                                    !.excludePatterns = excl, !.includePatterns = incl]
  /\ unreadable = {}
  /\ request = NoRequest
  /\ ParserInit

SpecScan == InitScan /\ [][NextScan]_vars

----------------------------------------------------------------------------
(* The graph parse() returns, as a directed graph.                         *)

Returned == pc = "done"

EdgeSet == SeqToSet(edges)

Successors(S) == S \cup {e.target : e \in {x \in EdgeSet : x.source \in S}}

RECURSIVE ReachableFrom(_)
ReachableFrom(S) ==
  IF Successors(S) = S THEN S ELSE ReachableFrom(Successors(S))

(* The edge lies on a directed cycle: its target leads back to its source. *)
OnCycle(e) == e.source \in ReachableFrom({e.target})

IdOf(name) == name \o TS

HasEdge(s, t, c) == [source |-> s, target |-> t, circular |-> c] \in EdgeSet

\* C1: after parse() every edge that lies on a directed cycle of the graph
\* has circular = true.
C1_CycleEdgesAllMarked ==
  Returned => \A e \in EdgeSet : OnCycle(e) => e.circular

----------------------------------------------------------------------------
(* The source trees of Spec, by node id.                                   *)

IdA == <<"a", ".", "ts">>
IdB == <<"app", "/", "b", ".", "ts">>
CommonTsId == LibCommon \o TS
CommonJsId == LibCommon \o JS
CommonIds == {CommonTsId, CommonJsId}
TestId == <<"b", ".", "test", ".", "ts">>

RelativeCommon == DOT \o SLASH \o LibCommon
AliasCommon == AT \o SLASH \o LibCommon
RootedCommon == SLASH \o LibCommon
UpCommon == DOTDOT \o SLASH \o LibCommon
RelativeTest == DOT \o SLASH \o <<"b", ".", "test">>
AliasTest == AT \o SLASH \o <<"b", ".", "test">>
SelfA == DOT \o SLASH \o <<"a">>
SelfATs == DOT \o SLASH \o <<"a", ".", "ts">>

SpecifiersOf(f) == IF f \in DOMAIN content THEN SeqToSet(content[f]) ELSE {}

ImportsOf(id) == IF id \in DOMAIN nodes THEN SeqToSet(nodes[id].imports) ELSE {}

ImportedByOf(id) == IF id \in DOMAIN nodes THEN SeqToSet(nodes[id].importedBy) ELSE {}

UnresolvedOf(id) ==
  IF id \in DOMAIN nodes THEN SeqToSet(nodes[id].unresolvedImports) ELSE {}

EdgesFrom(s) == {i \in 1..Len(edges) : edges[i].source = s}

\* C3: a file that imports itself, through any number of specifiers that
\* resolve to itself, yields exactly one edge from its id to its id, and that
\* edge has circular = true.
C3_SelfImportOneCircularEdge ==
  (Returned /\ SpecifiersOf(FileA) \cap {SelfA, SelfATs} # {})
    => /\ Cardinality({i \in EdgesFrom(IdA) : edges[i].target = IdA}) = 1
       /\ HasEdge(IdA, IdA, TRUE)

\* C3 witness: a.ts imports "./a" and "./a.ts"; one circular self-edge results.
C3_Witness ==
  /\ Returned
  /\ {SelfA, SelfATs} \subseteq SpecifiersOf(FileA)
  /\ HasEdge(IdA, IdA, TRUE)

\* C4: an alias-based specifier (in a.ts) and a relative specifier (in
\* app/b.ts) of the same in-tree file resolve to one id: both importers list
\* it in imports and its importedBy holds both importers.
C4_AliasAndRelativeCollapse ==
  (Returned /\ tsconfig.state = "valid" /\ AliasCommon \in SpecifiersOf(FileA)
     /\ content[FileB] = <<UpCommon>>)
    => \E f \in CommonIds :
         /\ f \in DOMAIN nodes
         /\ ImportsOf(IdA) \cap CommonIds = {f}
         /\ ImportsOf(IdB) \cap CommonIds = {f}
         /\ {IdA, IdB} \subseteq ImportedByOf(f)

\* C4 witness: the base directory is /r/app, so the alias route to
\* lib/common.ts runs through "..", and both importers hold lib/common.ts.
C4_Witness ==
  /\ Returned
  /\ tsConfigBaseUrl = PathJoin(RootDir, <<"app">>)
  /\ AliasCommon \in SpecifiersOf(FileA)
  /\ content[FileB] = <<UpCommon>>
  /\ CommonTsId \in ImportsOf(IdA) \cap ImportsOf(IdB)
  /\ {IdA, IdB} \subseteq ImportedByOf(CommonTsId)

NoSeparator(sp) ==
  ~StartsWith(sp, DOT) /\ ~StartsWith(sp, SLASH) /\ ~Includes(sp, SLASH)

MatchesNoAlias(sp) ==
  \A i \in 1..Len(settings.pathAliases) :
     ~AliasMatch(settings.pathAliases[i].alias, sp).match

EqualsNoAliasPrefix(sp) ==
  \A i \in 1..Len(settings.pathAliases) : sp # AliasPrefix(settings.pathAliases[i].alias)

(* What being dropped means for the specifiers of a.ts that satisfy Bare:  *)
(* none is reported unresolved, and if a.ts holds nothing else it imports  *)
(* nothing and no edge leaves it.                                          *)
DroppedInA(Bare(_)) ==
  /\ \A sp \in SpecifiersOf(FileA) : Bare(sp) => sp \notin UnresolvedOf(IdA)
  /\ (\A sp \in SpecifiersOf(FileA) : Bare(sp))
       => ImportsOf(IdA) = {} /\ EdgesFrom(IdA) = {}

Excluded(id) ==
  \E i \in 1..Len(given.excludePatterns) : Includes(id, given.excludePatterns[i])

MentionedIds ==
  DOMAIN nodes
  \cup UNION {ImportsOf(n) \cup ImportedByOf(n) : n \in DOMAIN nodes}
  \cup {e.source : e \in EdgeSet} \cup {e.target : e \in EdgeSet}

\* C6: no path that matches an exclude pattern is a node id, an entry of any
\* imports or importedBy, or the source or target of an edge.
C6_ExcludedNowhere == \A id \in MentionedIds : ~Excluded(id)

\* C6 witness: b.test.ts is on disk and excluded by /\.test\./; a.ts imports it
\* as "./b.test", app/b.ts through the alias as "@/b.test"; it is no node.
C6_Witness ==
  /\ Returned
  /\ Excluded(TestId)
  /\ TestTs \in disk.files
  /\ RelativeTest \in SpecifiersOf(FileA)
  /\ content[FileB] = <<AliasTest>>
  /\ tsconfig.state = "valid"
  /\ TestId \notin DOMAIN nodes
  /\ UnresolvedOf(IdA) = {} /\ UnresolvedOf(IdB) = {}

FirstCommonId == LibCommon \o settings.extensions[1]

\* C7: with lib/common.ts and lib/common.js both present, every strategy
\* (relative, alias, base-directory, root-relative) resolves lib/common to the
\* variant whose extension is first in the configured list.
C7_FirstExtensionWins ==
  (Returned /\ {CommonTs, CommonJs} \subseteq disk.files)
    => /\ \A n \in DOMAIN nodes : ImportsOf(n) \cap CommonIds \subseteq {FirstCommonId}
       /\ RelativeCommon \in SpecifiersOf(FileA) => FirstCommonId \in ImportsOf(IdA)
       /\ RootedCommon \in SpecifiersOf(FileA) => FirstCommonId \in ImportsOf(IdA)
       /\ (AliasCommon \in SpecifiersOf(FileA) /\ tsconfig.state = "valid")
            => FirstCommonId \in ImportsOf(IdA)
       /\ UpCommon \in SpecifiersOf(FileB) => FirstCommonId \in ImportsOf(IdB)

\* C7 witness: extensions [".js", ".ts"], both variants on disk, a.ts imports
\* "./lib/common" and "@/lib/common": lib/common.js is the import.
C7_Witness ==
  /\ Returned
  /\ {CommonTs, CommonJs} \subseteq disk.files
  /\ settings.extensions = <<JS, TS>>
  /\ content[FileA] = <<RelativeCommon, AliasCommon>>
  /\ tsconfig.state = "valid"
  /\ ImportsOf(IdA) = {CommonJsId}

\* C9: each edge's source and each edge's target is the id of a node of the
\* node mapping.
C9_EdgeEndsAreNodes ==
  \A e \in EdgeSet : e.source \in DOMAIN nodes /\ e.target \in DOMAIN nodes

\* C9 witness: app/b.ts imports "../tsconfig.json", a file on disk that is no
\* node; it resolves, is kept out of imports and gets no edge, while other
\* edges exist.
C9_Witness ==
  /\ Returned
  /\ content[FileB] = <<DOTDOT \o SLASH \o TsConfigJson>>
  /\ tsconfig.state = "valid"
  /\ ImportsOf(IdB) = {} /\ UnresolvedOf(IdB) = {}
  /\ edges # <<>>

\* C10: importedBy is the transpose of imports, and each pair of it has an
\* edge in the edge list.
C10_ImportedByIsTranspose ==
  Returned => \A a \in DOMAIN nodes, b \in DOMAIN nodes :
                /\ b \in ImportsOf(a) <=> a \in ImportedByOf(b)
                /\ b \in ImportsOf(a) => \E e \in EdgeSet : e.source = a /\ e.target = b

\* C10 witness: lib/common.ts is imported by a.ts and by app/b.ts.
C10_Witness ==
  /\ Returned
  /\ CommonTsId \in ImportsOf(IdA) \cap ImportsOf(IdB)
  /\ ImportedByOf(CommonTsId) = {IdA, IdB}

\* C8: a second build over the unchanged snapshot and configuration returns
\* the node set, the edge set and the circular flags of the first.
C8_SecondBuildSameGraph ==
  (Returned /\ prev.built)
    => DOMAIN nodes = prev.nodeIds /\ EdgeSet = prev.edgeSet

\* C8 witness: parse() ran twice on one parser (the edge list holds each edge
\* twice) over a graph with a marked cycle.
C8_Witness ==
  /\ Returned
  /\ prev.built
  /\ Len(edges) > Cardinality(EdgeSet)
  /\ \E e \in EdgeSet : e.circular

----------------------------------------------------------------------------
(* Failures: files that cannot be read, roots that are no directory, and   *)
(* tsconfig.json files that are no configuration.                          *)

ScannedUnreadable == unreadable \cap SeqToSet(scanned)

\* C11: when reading a scanned file fails in Pass 2 the build still completes,
\* and that file's node is in the graph with empty imports.
C11_ReadFailureRecovered ==
  (ScannedUnreadable # {} /\ response # "none")
    => /\ response = "200"
       /\ \A f \in ScannedUnreadable :
            LET id == PathRelative(settings.rootDir, f)
            IN id \in DOMAIN nodes /\ nodes[id].imports = <<>>

(* new DependencyParser(...) has run.                                      *)
Constructed == settings # DefaultGiven

RootIsDirectory == request.rootDir \in disk.dirs

\* C12: a request whose root is no directory is answered with an error before
\* a parser is constructed or anything is scanned, and a request whose root
\* is a directory is never turned away: its parser is constructed.
C12_OnlyBadRootRejected ==
  pc # "request"
    => IF RootIsDirectory
       THEN response # "400" /\ (pc # "new" => Constructed)
       ELSE /\ response = "400"
            /\ pc = "responded"
            /\ ~Constructed
            /\ scanned = <<>> /\ nodes = <<>> /\ edges = <<>>

\* C12 witness: the root exists and is a file; the answer is 400 and no parser
\* was constructed.
C12_Witness ==
  /\ request.rootDir = GraphFiles[1]
  /\ ExistsSync(disk, request.rootDir)
  /\ response = "400"
  /\ ~Constructed

NoConfiguration == {"absent", "unreadable", "empty", "strayText", "nullPaths"}

\* C20: with no alias table supplied and a tsconfig.json that is missing,
\* unreadable or invalid, the parser has an empty alias table and the build
\* does not abort (unless a source file cannot be read).
C20_BadTsConfigEmptyAliases ==
  (Constructed /\ ~given.hasPathAliases /\ tsconfig.state \in NoConfiguration)
    => /\ settings.pathAliases = <<>>
       /\ ~settings.nullAliases
       /\ ScannedUnreadable = {} => (pc # "failed" /\ response # "500")

----------------------------------------------------------------------------
(* Unresolved specifiers.                                                  *)

ResolutionOf(sp, f) == resolveImportPath(disk, settings, tsConfigBaseUrl, sp, f)

(* The candidate specifiers of file f for which resolution returns null.   *)
NotFoundIn(f) ==
  {sp \in SpecifiersOf(f) : IsCandidate(settings, sp) /\ ~ResolutionOf(sp, f).found}

FoundIn(f) ==
  {ResolutionOf(sp, f).path :
     sp \in {x \in SpecifiersOf(f) : IsCandidate(settings, x) /\ ResolutionOf(x, f).found}}

\* C13: the candidate specifiers whose resolution returns NotFound are exactly
\* the importing node's unresolvedImports; they add no node (the nodes are the
\* scanned files) and no edge (every edge leads to a resolved path).
C13_NotFoundOnlyRecorded ==
  Returned
    => /\ DOMAIN nodes = {PathRelative(settings.rootDir, f) : f \in SeqToSet(scanned)}
       /\ \A f \in {FileA, FileB} :
            LET id == PathRelative(settings.rootDir, f)
            IN /\ UnresolvedOf(id) = NotFoundIn(f)
               /\ \A i \in EdgesFrom(id) : edges[i].target \in FoundIn(f)

\* C13 witness: a.ts imports "@foo", which resolves nowhere, and
\* "./lib/common"; the first is unresolved, the second is the only edge of a.ts.
C13_Witness ==
  /\ Returned
  /\ content[FileA] = <<RelativeCommon, AT \o <<"foo">>>>
  /\ UnresolvedOf(IdA) = {AT \o <<"foo">>}
  /\ Cardinality(EdgesFrom(IdA)) = 1

----------------------------------------------------------------------------
(* A lone call of the resolver: what was asked, and the strategies.        *)

Sp == answer.importPath

Relative == StartsWith(Sp, DOT)

Exts == settings.extensions

(* The directory alias paths are joined against.                           *)
AliasBase == IF tsConfigBaseUrl # <<>> THEN tsConfigBaseUrl ELSE settings.rootDir

(* The result of a strategy that probes the base paths of a list in order. *)
Yield(bases) ==
  LET hit == {i \in 1..Len(bases) : Probe(disk, Exts, bases[i]).found}
  IN IF hit = {} THEN NotFound
     ELSE Found(PathRelative(settings.rootDir, Probe(disk, Exts, bases[MinOf(hit)]).path))

RelativeStrategy == <<PathResolve(PathDirname(answer.fromFile), Sp)>>

BaseStrategy == IF tsConfigBaseUrl # <<>> THEN <<PathJoin(tsConfigBaseUrl, Sp)>> ELSE <<>>

RootStrategy == <<PathJoin(settings.rootDir, Sp)>>

SrcStrategy == <<PathJoin(settings.rootDir, <<"src", "/">> \o Sp)>>

(* alias match, base-directory-relative, root-relative, root/src-relative  *)
OrderedStrategies == <<answer.aliasPaths, BaseStrategy, RootStrategy, SrcStrategy>>

\* C14: for a specifier that does not start with ".", the value returned is
\* the result of the first of the strategies alias match, base directory (when
\* configured), analysis root, root/src that yields, whatever later ones yield.
C14_StrategyOrder ==
  (answer.asked /\ ~Relative)
    => LET yields == {i \in 1..4 : Yield(OrderedStrategies[i]).found}
       IN answer.returned = IF yields = {} THEN NotFound
                            ELSE Yield(OrderedStrategies[MinOf(yields)])

\* C14 witness: "lib/common" with base directory /r/app; the base directory
\* yields app/lib/common.ts, the root yields lib/common.ts, no alias path
\* yields: the base directory's file is returned.
C14_Witness ==
  /\ answer.asked
  /\ Sp = LibCommon
  /\ tsConfigBaseUrl = AppDir
  /\ ~Yield(answer.aliasPaths).found
  /\ Yield(RootStrategy) = Found(LibCommon \o TS)
  /\ answer.returned = Found(<<"app", "/">> \o LibCommon \o TS)

(* The paths the three-step probe of base path p looks at.                 *)
ProbedPaths(p) ==
  {p \o Exts[i] : i \in 1..Len(Exts)} \cup {p}
  \cup {PathJoin(p, <<"index">>) \o Exts[i] : i \in 1..Len(Exts)}

(* Some base path of the strategy has a probed path that is a regular file. *)
YieldsFile(bases) ==
  \E i \in 1..Len(bases) : \E q \in ProbedPaths(bases[i]) : IsFile(disk, q)

\* C15 (as claimed): whenever one of the strategies - relative for a specifier
\* that starts with ".", alias match, base directory, root fallbacks - would
\* yield a file for the specifier, a path is returned.
C15_NotFoundOnlyIfNoStrategyYields ==
  (answer.asked
     /\ (\/ Relative /\ YieldsFile(RelativeStrategy)
         \/ \E i \in 1..4 : YieldsFile(OrderedStrategies[i])))
    => answer.returned.found

(* The strategies the resolver applies to the specifier asked.             *)
ApplicableStrategies ==
  IF Relative THEN <<RelativeStrategy>> ELSE OrderedStrategies

\* C15 (amended): a specifier that starts with "." is resolved by the relative
\* strategy alone, every other specifier by alias match, base directory and
\* root fallbacks; a path is returned whenever one of the strategies applied
\* to the specifier yields a file, and NotFound when none of them has a probe
\* that hits.
C15_NotFoundOnlyIfNoApplicableStrategyYields ==
  answer.asked
    => /\ (\E i \in DOMAIN ApplicableStrategies : YieldsFile(ApplicableStrategies[i]))
            => answer.returned.found
       /\ (\A i \in DOMAIN ApplicableStrategies : ~Yield(ApplicableStrategies[i]).found)
            => answer.returned = NotFound

\* C15 witness: "lib/common" with no alias table; only src/lib/common.ts is
\* there, the last strategy yields it and it is returned.
C15_Witness ==
  /\ answer.asked
  /\ Sp = LibCommon
  /\ settings.pathAliases = <<>>
  /\ ~YieldsFile(RootStrategy)
  /\ YieldsFile(SrcStrategy)
  /\ answer.returned = Found(<<"src", "/">> \o LibCommon \o TS)

\* C16: the probe of a base path P looks at P plus each extension, then P if
\* it is a regular file, then P/index plus each extension, the first that
\* exists wins, and the path returned denotes a regular file, never a directory.
C16_ReturnedPathIsFile ==
  (answer.asked /\ answer.returned.found)
    => IsFile(disk, PathJoin(settings.rootDir, answer.returned.path))

----------------------------------------------------------------------------
(* Alias matching and substitution, stated on the text of the alias.       *)

Stars(alias) == {i \in 1..Len(alias) : alias[i] = "*"}

(* The text of a one-star alias before and after its star.                 *)
BeforeStar(alias) == SubSeq(alias, 1, MinOf(Stars(alias)) - 1)

AfterStar(alias) == SubSeq(alias, MinOf(Stars(alias)) + 1, Len(alias))

(* The specifier starts with the text before the star and ends with the    *)
(* text after it, the two not overlapping.                                 *)
PrefixSuffixMatch(alias, sp) ==
  /\ StartsWith(sp, BeforeStar(alias))
  /\ EndsWith(sp, AfterStar(alias))
  /\ Len(sp) >= Len(alias) - 1

Middle(alias, sp) ==
  SubSeq(sp, Len(BeforeStar(alias)) + 1, Len(sp) - Len(AfterStar(alias)))

(* The alias paths of one alias as the rule describes them.                *)
PathsByRule(a, sp) ==
  LET matches == IF Stars(a.alias) = {} THEN sp = a.alias
                 ELSE PrefixSuffixMatch(a.alias, sp)
      captured == IF Stars(a.alias) = {} THEN <<>> ELSE Middle(a.alias, sp)
  IN IF matches
     THEN [j \in 1..Len(a.replacements) |->
             PathJoin(AliasBase, SubstitutePlain(a.replacements[j], captured))]
     ELSE <<>>

RECURSIVE AllPathsByRule(_, _)
AllPathsByRule(aliases, sp) ==
  IF aliases = <<>> THEN <<>>
  ELSE PathsByRule(Head(aliases), sp) \o AllPathsByRule(Tail(aliases), sp)

\* C17: a one-star alias matches exactly the specifiers that start with its
\* text before the star and end with its text after it, capturing the middle;
\* an alias without a star matches the identical specifier; the captured text
\* (empty for an exact alias) replaces the star of the template, a template
\* without a star is used as it is, and the result is joined against the base
\* directory, or the analysis root when there is none.
C17_AliasPathsFollowRule ==
  (answer.asked /\ ~Relative)
    => answer.aliasPaths = AllPathsByRule(settings.pathAliases, Sp)

(* The same for the specifiers that hold no "$".                           *)
AliasPathsFollowRuleWithoutDollar ==
  (answer.asked /\ ~Relative /\ ~Includes(Sp, <<"$">>))
    => answer.aliasPaths = AllPathsByRule(settings.pathAliases, Sp)

\* C18: aliases are tried in table order and the templates of a matching
\* alias in list order: for "lib/common" the alias paths are x/common and
\* y/common of "lib/*", then z/lib/common of "*"; the first alias path that
\* yields a file is returned, and when none does the later strategies decide.
C18_FirstReplacementWins ==
  (answer.asked /\ Sp = LibCommon /\ settings.pathAliases # <<>>)
    => /\ answer.aliasPaths = <<PathJoin(AliasBase, <<"x", "/", "common">>),
                                PathJoin(AliasBase, <<"y", "/", "common">>),
                                PathJoin(AliasBase, <<"z", "/", "lib", "/", "common">>)>>
       /\ LET hit == {i \in 1..3 : Probe(disk, Exts, answer.aliasPaths[i]).found}
          IN answer.returned =
               IF hit # {}
               THEN Found(PathRelative(settings.rootDir,
                                       Probe(disk, Exts, answer.aliasPaths[MinOf(hit)]).path))
               ELSE Yield(BaseStrategy \o RootStrategy \o SrcStrategy)

\* C18 witness: x/common.ts is missing, y/common.ts and z/lib/common.ts are
\* there: the second template of the first alias wins over the later alias.
C18_Witness ==
  /\ answer.asked
  /\ Sp = LibCommon
  /\ settings.pathAliases # <<>>
  /\ ~IsFile(disk, PathJoin(AliasBase, <<"x", "/", "common", ".", "ts">>))
  /\ IsFile(disk, PathJoin(AliasBase, <<"y", "/", "common", ".", "ts">>))
  /\ IsFile(disk, PathJoin(AliasBase, <<"z", "/", "lib", "/", "common", ".", "ts">>))
  /\ answer.returned =
       Found(PathRelative(settings.rootDir,
                          PathJoin(AliasBase, <<"y", "/", "common", ".", "ts">>)))

(* The specifier matches an alias of the table under the resolver's rule.  *)
MatchesAnAlias(sp) ==
  \E i \in 1..Len(settings.pathAliases) :
     AliasMatch(settings.pathAliases[i].alias, sp).match

(* extractImports handed the specifier to the resolver.                    *)
WasCandidate ==
  answer.extracted.resolved # <<>> \/ answer.extracted.unresolved # <<>>

\* C19: a specifier that matches a configured alias under the resolver's rule
\* is a candidate for resolution and is never dropped as an external package.
C19_AliasMatchIsCandidate ==
  (answer.asked /\ MatchesAnAlias(Sp)) => WasCandidate

----------------------------------------------------------------------------
(* The graph and the order of the scan.                                    *)

Pairs(es) == {<<e.source, e.target>> : e \in es}

(* The imports the files hold: the id of the importer and of the imported. *)
HeldImports ==
  {<<OrderListing[pr[1]], OrderListing[pr[2]]>> :
     pr \in {q \in (DOMAIN OrderFiles) \X (DOMAIN OrderFiles) :
               (DOT \o SLASH \o GraphNames[q[2]]) \in SeqToSet(content[OrderFiles[q[1]]])}}

ListedBefore(order, x, y) == IndexOf(order, x) < IndexOf(order, y)

(* C21: every scanned file is a node and every import a file holds is an   *)
(* edge, whether the imported file is listed before or after its importer; *)
(* a build over another listing order of the same files returns the same   *)
(* node set and the same set of (source, target) edges.                    *)
C21_GraphIndependentOfListingOrder ==
  Returned =>
    /\ DOMAIN nodes = SeqToSet(OrderListing)
    /\ Pairs(EdgeSet) = HeldImports
    /\ prev.built => /\ DOMAIN nodes = prev.nodeIds
                     /\ Pairs(EdgeSet) = Pairs(prev.edgeSet)

(* The second build is over: an importer was listed before the file it     *)
(* imports this time and after it the first time.                          *)
C21_Witness ==
  /\ Returned
  /\ prev.built
  /\ \E e \in EdgeSet :
       /\ ListedBefore(nodeOrder, e.source, e.target)
       /\ ListedBefore(OrderListing, e.target, e.source)

(* The (source, target) pairs of the edges marked circular.                *)
MarkedPairs(es) == Pairs({e \in es : e.circular})

(* C22: a build of the same graph with the nodes listed, or the imports of *)
(* a node held, in another order marks exactly the same edges circular.    *)
C22_MarksIndependentOfOrder ==
  Returned /\ prev.built => MarkedPairs(EdgeSet) = MarkedPairs(prev.edgeSet)

----------------------------------------------------------------------------
(* The files the scanner returns.                                          *)

ScanDone == pc \in {"pass2", "dfs"}

UnderRoot(f) == StartsWith(f, settings.rootDir \o SLASH)

RelativeOf(f) == PathRelative(settings.rootDir, f)

(* The directories between the root and the file.                          *)
DirsBelowRoot(f) ==
  LET segs == Split(RelativeOf(f))
  IN {segs[i] : i \in 1..(Len(segs) - 1)}

MatchesSome(patterns, s) == \E i \in 1..Len(patterns) : Includes(s, patterns[i])

Returnable(f) ==
  /\ UnderRoot(f)
  /\ DirsBelowRoot(f) \cap {NodeModules, DotGit, Dist} = {}
  /\ PathExtname(PathBasename(f)) \in SeqToSet(settings.extensions)
  /\ ~MatchesSome(settings.excludePatterns, RelativeOf(f))
  /\ settings.includePatterns = <<>> \/ MatchesSome(settings.includePatterns, RelativeOf(f))

(* C23: the scanner returns a file exactly when it is under the root, no   *)
(* directory between the root and the file is node_modules, .git or dist,  *)
(* its extension is in the extension list, its path relative to the root   *)
(* matches no exclude pattern, and there are no include patterns or it     *)
(* matches one; a file matching an include and an exclude pattern is not   *)
(* returned.                                                               *)
C23_ScannerReturnsExactly ==
  ScanDone =>
    /\ SeqToSet(scanned) = {f \in disk.files : Returnable(f)}
    /\ \A f \in disk.files :
         /\ MatchesSome(settings.includePatterns, RelativeOf(f))
         /\ MatchesSome(settings.excludePatterns, RelativeOf(f))
         => f \notin SeqToSet(scanned)

(* A scan with include and exclude patterns returned lib/b.ts and left out *)
(* lib/b.test.ts, which matches both, and lib/node_modules/q.ts.           *)
C23_Witness ==
  /\ ScanDone
  /\ settings.rootDir = RootDir
  /\ settings.includePatterns = <<Lib>>
  /\ settings.excludePatterns = <<<<".", "test", ".">>>>
  /\ disk.files = {File(<<Lib>>, <<"b">>, TS), File(<<Lib>>, <<"b", ".", "test">>, TS),
                   File(<<Lib, NodeModules>>, <<"q">>, TS)}
  /\ scanned = <<File(<<Lib>>, <<"b">>, TS)>>

----------------------------------------------------------------------------
(* The edge list after parse() calls on one parser.                        *)

EdgesBetween(s, t) == {i \in 1..Len(edges) : edges[i].source = s /\ edges[i].target = t}

EntriesOf(s, t) == {i \in 1..Len(nodes[s].imports) : nodes[s].imports[i] = t}

(* C24: whenever parse() has returned, the edge list holds at most one     *)
(* edge per (source, target) pair, and for every node as many edges to a   *)
(* target as its imports hold entries for it.                              *)
C24_OneEdgePerImport ==
  Returned =>
    \A s \in DOMAIN nodes : \A t \in DOMAIN nodes :
      /\ Cardinality(EdgesBetween(s, t)) <= 1
      /\ Cardinality(EdgesBetween(s, t)) = Cardinality(EntriesOf(s, t))

----------------------------------------------------------------------------
(* Termination of the cycle detection.                                     *)

ExpandedAtMostOnce == \A id \in DOMAIN expanded : expanded[id] <= 1

(* C25: once cycle detection has started, parse() returns, and by then dfs *)
(* has been entered at most once for every node, be it as a root or        *)
(* through an importer (the count of entries never goes down, so it was at *)
(* most one all along).                                                    *)
C25_DetectionTerminatesExpandingOnce ==
  (pc = "dfs") ~> (pc = "done" /\ ExpandedAtMostOnce)

(* Detection is over on a graph with a self-edge, a cycle through two      *)
(* nodes, and a node with two importers besides itself.                    *)
C25_Witness ==
  /\ Returned
  /\ \E e \in EdgeSet : e.source = e.target
  /\ \E e \in EdgeSet : e.source # e.target /\ e.circular
  /\ \E id \in DOMAIN nodes : Cardinality(ImportedByOf(id) \ {id}) >= 2
  /\ \A id \in DOMAIN nodes : expanded[id] = 1

====
